---- MODULE Spec2Model ----
(***************************************************************************)
(* A model of the surface resampling core (src/src/process/surface.py)     *)
(* and of the workflow driver's step markers (src/src/process/main.py).    *)
(*                                                                         *)
(* Numbers.  Coordinates are integer triples; the weights of the mesh      *)
(* correspondence operator and the across-depth means are exact rationals  *)
(* <<numerator, denominator>>, so float64 rounding is below the model's    *)
(* resolution.  The out-of-bounds sentinel np.nan is the value NaN.        *)
(* Python's 0-based indices are 1-based here, except voxel indices, which  *)
(* keep their 0-based values.                                              *)
(***************************************************************************)
EXTENDS Integers, Sequences, FiniteSets, TLC

VARIABLES
    \* nnfr_transformation: its arguments, the two k-d tree answers, its value
    source_sphere, target_sphere, reverse, forward_indices, reverse_indices, T, nnfr_pc,
    \* canonical_volume_coords: its arguments brainmask and margin, the boundaries
    \* find_truncation_boundaries returned to it, and its value (coords, shape)
    brainmask, margin, boundaries, coords, shape, grid_pc,
    \* Hemisphere: self.spaces, the space dicts held as attributes (hemi["native"]
    \* is self.native, hemi[name] the attribute setattr made), self.c_ras,
    \* self.fsavg_sphere, the constructor's position, and the last call made on
    \* the object with the exception it raised ("none": it returned)
    spaces, hemi, c_ras, fsavg_sphere, hemi_pc, hemi_call, hemi_raised,
    \* Interpolator: the numbers of vol*.nii.gz and vol*_xfm.nii.gz files in
    \* wf_dir, the attributes of the object (session[a] is self.a), the
    \* constructor's position, and the last call made on the object with the
    \* exception it raised ("none": it returned) and what it returned
    wf_dir, session, sess_pc, sess_call, sess_raised, sess_ret,
    \* the space dict the caller of interpolate_surface holds
    surface,
    \* per order, how many times the prefilter pass over the source volumes
    \* (the list of spline_filter calls of _get_filtered_data) has run
    spline_runs,
    \* PreprocessWorkflow (src/src/process/main.py), one subject and log
    \* directory shared by the processes: the marker files of log_dir with their
    \* contents, the archives and the fmriprep roots on disk, how many times
    \* each step body has run; and per process the position in _run_method,
    \* its name argument, its locals success, error and message, what the call
    \* did to the markers, how the call ended, and the calls made so far
    log_dir, archives, roots, body_runs,
    run_pc, run_name, run_success, run_error, run_message, run_wrote, run_result, run_calls

meshVars == <<source_sphere, target_sphere, reverse, forward_indices, reverse_indices, T, nnfr_pc>>
gridVars == <<brainmask, margin, boundaries, coords, shape, grid_pc>>
hemiVars == <<spaces, hemi, c_ras, fsavg_sphere, hemi_pc, hemi_call, hemi_raised>>
sessVars == <<wf_dir, session, sess_pc, sess_call, sess_raised, sess_ret, surface, spline_runs>>
workVars == <<log_dir, archives, roots, body_runs,
              run_pc, run_name, run_success, run_error, run_message, run_wrote, run_result, run_calls>>
vars == <<meshVars, gridVars, hemiVars, sessVars, workVars>>

\* Frame conditions: a step of one component leaves the others alone.
OnlyMesh == UNCHANGED <<gridVars, hemiVars, sessVars, workVars>>
OnlyGrid == UNCHANGED <<meshVars, hemiVars, sessVars, workVars>>
OnlyHemi == UNCHANGED <<meshVars, gridVars, sessVars, workVars>>
OnlySess == UNCHANGED <<meshVars, gridVars, hemiVars, workVars>>
OnlyWork == UNCHANGED <<meshVars, gridVars, hemiVars, sessVars>>

\* canonical_volume_coords is not being called.
GridIdle ==
    /\ brainmask = <<>>
    /\ margin = 0
    /\ boundaries = <<>>
    /\ coords = <<>>
    /\ shape = <<>>
    /\ grid_pc = "idle"

\* No Hemisphere is being constructed.
HemiIdle ==
    /\ spaces = <<>>
    /\ hemi = <<>>
    /\ c_ras = <<>>
    /\ fsavg_sphere = <<>>
    /\ hemi_pc = "idle"
    /\ hemi_call = <<>>
    /\ hemi_raised = "none"

\* No Interpolator has been constructed.
SessIdle ==
    /\ wf_dir = <<>>
    /\ session = <<>>
    /\ sess_pc = "idle"
    /\ sess_call = <<>>
    /\ sess_raised = "none"
    /\ sess_ret = <<>>
    /\ surface = <<>>
    /\ spline_runs = <<>>

\* No PreprocessWorkflow is running.
WorkIdle ==
    /\ log_dir = <<>>
    /\ archives = {}
    /\ roots = {}
    /\ body_runs = <<>>
    /\ run_pc = <<>>
    /\ run_name = <<>>
    /\ run_success = <<>>
    /\ run_error = <<>>
    /\ run_message = <<>>
    /\ run_wrote = <<>>
    /\ run_result = <<>>
    /\ run_calls = <<>>

\* Python's None, and the value a variable holds before its operation has run.
None == "None"

-----------------------------------------------------------------------------
(* Helpers *)

RECURSIVE SumSet(_, _)
\* The sum of f[x] over the finite set S.
SumSet(f, S) ==
    IF S = {} THEN 0
    ELSE LET x == CHOOSE y \in S : TRUE IN f[x] + SumSet(f, S \ {x})

\* The sequences over S of length lo..hi.
SeqsOf(S, lo, hi) == UNION {[1..n -> S] : n \in lo..hi}

\* The elements of a set of integers as an ascending sequence (np.unique, np.setdiff1d).
RECURSIVE SortedSeq(_)
SortedSeq(S) ==
    IF S = {} THEN <<>>
    ELSE LET m == CHOOSE x \in S : \A y \in S : x <= y IN <<m>> \o SortedSeq(S \ {m})

Dist2YZMutant(p, q) ==
    (p[2] - q[2]) * (p[2] - q[2]) + (p[3] - q[3]) * (p[3] - q[3])

\* The squared Euclidean distance the k-d trees order their answers by.
Dist2(p, q) ==
    (p[1] - q[1]) * (p[1] - q[1]) + (p[2] - q[2]) * (p[2] - q[2]) + (p[3] - q[3]) * (p[3] - q[3])

-----------------------------------------------------------------------------
(* Affines: 4x4 integer matrices acting on homogeneous points <<x, y, z, 1>> *)

Axes == 1..3

Dot4(a, p) == a[1] * p[1] + a[2] * p[2] + a[3] * p[3] + a[4] * p[4]

Column(B, j) == <<B[1][j], B[2][j], B[3][j], B[4][j]>>

RowTimes(a, B) ==
    <<Dot4(a, Column(B, 1)), Dot4(a, Column(B, 2)), Dot4(a, Column(B, 3)), Dot4(a, Column(B, 4))>>

\* A @ B
MatMul(A, B) == <<RowTimes(A[1], B), RowTimes(A[2], B), RowTimes(A[3], B), RowTimes(A[4], B)>>

\* One row p of `points @ A.T`: the affine A applied to the point p.
Apply(A, p) == <<Dot4(A[1], p), Dot4(A[2], p), Dot4(A[3], p), Dot4(A[4], p)>>

Translation(t) ==
    <<<<1, 0, 0, t[1]>>, <<0, 1, 0, t[2]>>, <<0, 0, 1, t[3]>>, <<0, 0, 0, 1>>>>

Identity4 == Translation(<<0, 0, 0>>)

Homogeneous(v) == <<v[1], v[2], v[3], 1>>

-----------------------------------------------------------------------------
(* nnfr_transformation: nearest-neighbour mesh correspondence *)

MaxSource == 3
MaxTarget == 3

\* A sphere: a non-empty sequence of pairwise distinct vertices.
PairwiseDistinct(sphere) ==
    \A i, j \in DOMAIN sphere : i # j => sphere[i] # sphere[j]

\* Its vertices are drawn from four points of the unit sphere; (0,1,0) and
\* (0,0,1) are equidistant from the other two, so nearest-neighbour ties occur.
Spheres(maxVerts) ==
    {sphere \in SeqsOf({<<1, 0, 0>>, <<-1, 0, 0>>, <<0, 1, 0>>, <<0, 0, 1>>}, 1, maxVerts) :
        PairwiseDistinct(sphere)}

\* cKDTree(data).query(p)[1]: the index of a data point nearest to p.  Which of
\* several equidistant points the tree returns is left open: every one of them
\* is a possible answer.
Nearest(data, p) ==
    {i \in DOMAIN data : \A j \in DOMAIN data : Dist2(data[i], p) <= Dist2(data[j], p)}

\* cKDTree(data).query(points)[1], for a sequence of query points.
Query(data, points) ==
    {f \in [DOMAIN points -> DOMAIN data] : \A i \in DOMAIN points : f[i] \in Nearest(data, points[i])}

\* remaining = np.setdiff1d(np.arange(ns), np.unique(forward_indices))
Remaining(ns, fwd) == SortedSeq((1..ns) \ {fwd[t] : t \in DOMAIN fwd})

\* The lil_matrix after the two accumulation loops: T[s, t] += 1 per pair.
HitMatrix(ns, nt, fwd, rem, rev, useReverse) ==
    [s \in 1..ns |-> [t \in 1..nt |->
        (IF fwd[t] = s THEN 1 ELSE 0)
        + (IF useReverse
           THEN Cardinality({k \in DOMAIN rem : rem[k] = s /\ rev[k] = t})
           ELSE 0)]]

\* t_counts = T.sum(axis=0)
ColumnSums(H, ns, nt) == [t \in 1..nt |-> SumSet([s \in 1..ns |-> H[s][t]], 1..ns)]

NormalizeByRowMutant(H, ns, nt) ==
    LET r_counts == [s \in 1..ns |-> SumSet([t \in 1..nt |-> H[s][t]], 1..nt)]
    IN [s \in 1..ns |-> [t \in 1..nt |-> <<H[s][t], r_counts[s]>>]]

\* T @ sparse.diags(np.reciprocal(t_counts)): entry (s, t) is H[s, t] / t_counts[t].
NormalizeColumns(H, ns, nt) ==
    LET t_counts == ColumnSums(H, ns, nt)
    IN [s \in 1..ns |-> [t \in 1..nt |-> <<H[s][t], t_counts[t]>>]]

ForwardOnlyMutant(source, target, rev_flag, fwd, rev) ==
    NormalizeColumns(
        HitMatrix(Len(source), Len(target), fwd, Remaining(Len(source), fwd), rev, FALSE),
        Len(source), Len(target))

\* The value of nnfr_transformation(source, target, reverse) when the source
\* tree answers fwd and the target tree answers rev.
nnfr_transformation(source, target, rev_flag, fwd, rev) ==
    NormalizeColumns(
        HitMatrix(Len(source), Len(target), fwd, Remaining(Len(source), fwd), rev, rev_flag),
        Len(source), Len(target))

\* The query points of the reverse pass: source_sphere[remaining].
RemainingPoints(source, fwd) ==
    LET rem == Remaining(Len(source), fwd) IN [k \in DOMAIN rem |-> source[rem[k]]]

\* One call nnfr_transformation(source_sphere, target_sphere, reverse).
Nnfr ==
    /\ nnfr_pc = "call"
    /\ nnfr_pc' = "return"
    /\ \E fwd \in Query(source_sphere, target_sphere) :
         \E rev \in IF reverse
                    THEN Query(target_sphere, RemainingPoints(source_sphere, fwd))
                    ELSE {<<>>} :
            /\ forward_indices' = fwd
            /\ reverse_indices' = rev
            /\ T' = nnfr_transformation(source_sphere, target_sphere, reverse, fwd, rev)
    /\ UNCHANGED <<source_sphere, target_sphere, reverse>>
    /\ OnlyMesh

MeshNext == Nnfr

\* nnfr_transformation is not being called.
MeshIdle ==
    /\ source_sphere = <<>>
    /\ target_sphere = <<>>
    /\ reverse = FALSE
    /\ forward_indices = <<>>
    /\ reverse_indices = <<>>
    /\ T = <<>>
    /\ nnfr_pc = "idle"

MeshInit ==
    /\ source_sphere \in Spheres(MaxSource)
    /\ target_sphere \in Spheres(MaxTarget)
    /\ reverse \in BOOLEAN
    /\ forward_indices = <<>>
    /\ reverse_indices = <<>>
    /\ T = <<>>
    /\ nnfr_pc = "call"
    /\ GridIdle /\ HemiIdle /\ SessIdle /\ WorkIdle

SpecMesh == MeshInit /\ [][MeshNext]_vars

\* Rational entries <<n, d>> of the operator.
IsZero(w) == w[1] = 0 /\ w[2] # 0
IsOne(w) == w[1] = w[2] /\ w[2] # 0

\* The weights of column t share the denominator t_counts[t]; they sum to 1
\* when their numerators sum to it.
ColumnSumsToOne(W, t) ==
    LET d == W[1][t][2]
    IN /\ d # 0
       /\ \A s \in DOMAIN W : W[s][t][2] = d
       /\ SumSet([s \in DOMAIN W |-> W[s][t][1]], DOMAIN W) = d

C3_EverySourceContributes ==
    (nnfr_pc = "return" /\ reverse) =>
        LET rem == Remaining(Len(source_sphere), forward_indices)
        IN /\ \A s \in DOMAIN source_sphere :
                \E t \in DOMAIN target_sphere : T[s][t][1] # 0 /\ T[s][t][2] # 0
           /\ \A k \in DOMAIN rem :
                /\ reverse_indices[k] \in Nearest(target_sphere, source_sphere[rem[k]])
                /\ T[rem[k]][reverse_indices[k]][1] # 0

\* Two source vertices no target vertex picked, each given a reverse entry.
C3_Witness ==
    /\ nnfr_pc = "return"
    /\ reverse
    /\ Len(Remaining(Len(source_sphere), forward_indices)) >= 2

\* C4: for a sphere S of pairwise distinct vertices, nnfr_transformation(S, S)
\* is the identity operator, with reverse enabled or disabled.
C4_SelfCorrespondenceIsIdentity ==
    (nnfr_pc = "return" /\ source_sphere = target_sphere /\ PairwiseDistinct(source_sphere)) =>
        \A s \in DOMAIN source_sphere : \A t \in DOMAIN target_sphere :
            IF s = t THEN IsOne(T[s][t]) ELSE IsZero(T[s][t])

C4_Witness ==
    /\ nnfr_pc = "return"
    /\ source_sphere = target_sphere
    /\ PairwiseDistinct(source_sphere)
    /\ Len(source_sphere) >= 3

-----------------------------------------------------------------------------
(* find_truncation_boundaries and canonical_volume_coords: the volume grid *)

MaxDim == 4
MaxMargin == 2
DefaultMargin == 2

\* The axis lengths a brain mask is drawn with, and its shapes: slabs with at
\* least one axis of length 1.
MaskShapes == {shp \in [Axes -> {1, MaxDim}] : \E d \in Axes : shp[d] = 1}

VoxelsOf(shp) == {v \in [Axes -> 0..MaxDim - 1] : \A d \in Axes : v[d] < shp[d]}

\* Orientations of the mask's voxel axes: ornt[k] = <<world axis, direction>> of
\* voxel axis k (nibabel's io_orientation).  RAS is canonical; LAS flips the
\* first axis; LIA is FreeSurfer's conformed orientation.
Orientations ==
    { <<<<1, 1>>, <<2, 1>>, <<3, 1>>>>,
      <<<<1, -1>>, <<2, 1>>, <<3, 1>>>>,
      <<<<1, -1>>, <<3, -1>>, <<2, 1>>>> }

\* World position of voxel (0, 0, 0) of every mask image.
MaskOrigin == <<-1, 0, 2>>

\* Entry (i, j) of an orientation's linear part: voxel axis j runs along world
\* axis ornt[j][1] in direction ornt[j][2].
OrntEntry(ornt, i, j) == IF ornt[j][1] = i THEN ornt[j][2] ELSE 0

\* The affine of an image with unit voxels, orientation ornt and origin o.
ImageAffine(ornt, o) ==
    << <<OrntEntry(ornt, 1, 1), OrntEntry(ornt, 1, 2), OrntEntry(ornt, 1, 3), o[1]>>,
       <<OrntEntry(ornt, 2, 1), OrntEntry(ornt, 2, 2), OrntEntry(ornt, 2, 3), o[2]>>,
       <<OrntEntry(ornt, 3, 1), OrntEntry(ornt, 3, 2), OrntEntry(ornt, 3, 3), o[3]>>,
       <<0, 0, 0, 1>> >>

\* Row k of the reordering's affine: voxel index k of the image as loaded, as
\* a function of the canonical voxel index.
ReorderRow(ornt, shp, k) ==
    << IF ornt[k][1] = 1 THEN ornt[k][2] ELSE 0,
       IF ornt[k][1] = 2 THEN ornt[k][2] ELSE 0,
       IF ornt[k][1] = 3 THEN ornt[k][2] ELSE 0,
       IF ornt[k][2] = 1 THEN 0 ELSE shp[k] - 1 >>

\* The brain mask images: a shape, the set of nonzero voxels (none, one or two
\* of them), an orientation, and the affine that goes with it.
MaskImages ==
    UNION { { [shape |-> shp, nonzero |-> nz, ornt |-> o, affine |-> ImageAffine(o, MaskOrigin)] :
                nz \in {{}} \cup {{v, w} : v, w \in VoxelsOf(shp)}, o \in Orientations } :
            shp \in MaskShapes }

\* nib.as_closest_canonical(img): the voxel axes reordered and flipped to RAS,
\* and the affine composed with the reordering so that every voxel keeps its
\* world position.
as_closest_canonical(img) ==
    LET o == img.ornt
        src(a) == CHOOSE k \in Axes : o[k][1] = a
        cshape == [a \in Axes |-> img.shape[src(a)]]
        cidx(v) == [a \in Axes |->
                      IF o[src(a)][2] = 1 THEN v[src(a)] ELSE img.shape[src(a)] - 1 - v[src(a)]]
        back == <<ReorderRow(o, img.shape, 1), ReorderRow(o, img.shape, 2),
                  ReorderRow(o, img.shape, 3), <<0, 0, 0, 1>>>>
    IN [shape |-> cshape,
        nonzero |-> {cidx(v) : v \in img.nonzero},
        ornt |-> <<<<1, 1>>, <<2, 1>>, <<3, 1>>>>,
        affine |-> MatMul(img.affine, back)]

\* mask[i] of find_truncation_boundaries: slice i along dim is all zero.
SliceAllZero(data, dim, i) == \A v \in data.nonzero : v[dim] # i

RECURSIVE ScanUp(_, _, _, _)
\* for i in range(shape[dim]): if mask[i]: b = i, else: break
ScanUp(data, dim, i, b) ==
    IF i >= data.shape[dim] THEN b
    ELSE IF SliceAllZero(data, dim, i) THEN ScanUp(data, dim, i + 1, i)
    ELSE b

RECURSIVE ScanDown(_, _, _, _)
\* for i in range(shape[dim])[::-1]: if mask[i]: b = i, else: break
ScanDown(data, dim, i, b) ==
    IF i < 0 THEN b
    ELSE IF SliceAllZero(data, dim, i) THEN ScanDown(data, dim, i - 1, i)
    ELSE b

Max(a, b) == IF a >= b THEN a ELSE b
Min(a, b) == IF a <= b THEN a ELSE b

FindBoundariesUnclampedMutant(data, m) ==
    [dim \in Axes |->
        <<ScanUp(data, dim, 0, 0) - m, ScanDown(data, dim, data.shape[dim] - 1, 0) + m + 1>>]

\* find_truncation_boundaries(data, margin): boundaries[dim] = <<start, stop>>.
find_truncation_boundaries(data, m) ==
    [dim \in Axes |->
        LET b0 == ScanUp(data, dim, 0, 0)
            b1 == ScanDown(data, dim, data.shape[dim] - 1, 0)
        IN <<Max(b0 - m, 0), Min(b1 + m + 1, data.shape[dim])>>]

\* np.mgrid[b[0,0]:b[0,1], b[1,0]:b[1,1], b[2,0]:b[2,1]].shape: an empty range has length 0.
GridShape(b) == [d \in Axes |-> Max(b[d][2] - b[d][1], 0)]

\* The rows of an mgrid of shape n starting at b[.][1], reshaped to (K, 4):
\* voxel indices in C order, each with the homogeneous 1.
MgridRows(b, n) ==
    [r \in 1..(n[1] * n[2] * n[3]) |->
        <<b[1][1] + ((r - 1) \div (n[2] * n[3])),
          b[2][1] + (((r - 1) \div n[3]) % n[2]),
          b[3][1] + ((r - 1) % n[3]),
          1>>]

GridRows(b) == MgridRows(b, GridShape(b))

\* rows @ A.T
ApplyAll(A, rows) == [r \in DOMAIN rows |-> Apply(A, rows[r])]

\* Lines 99-102 of canonical_volume_coords, given the canonical image and its boundaries.
VolumeCoords(canonical, b) ==
    [boundaries |-> b,
     coords |-> ApplyAll(canonical.affine, GridRows(b)),
     shape |-> GridShape(b)]

TruncatedGrid(canonical, m) == VolumeCoords(canonical, find_truncation_boundaries(canonical, m))

\* canonical_volume_coords(brainmask, margin): the margin argument is not
\* handed on, find_truncation_boundaries runs with its default.
canonical_volume_coords(img, m) == TruncatedGrid(as_closest_canonical(img), DefaultMargin)

\* One call canonical_volume_coords(brainmask, margin=margin).
CanonicalVolumeCoords ==
    /\ grid_pc = "call"
    /\ grid_pc' = "return"
    /\ \E r \in {canonical_volume_coords(brainmask, margin)} :
          /\ boundaries' = r.boundaries
          /\ coords' = r.coords
          /\ shape' = r.shape
    /\ UNCHANGED <<brainmask, margin>>
    /\ OnlyGrid

GridNext == CanonicalVolumeCoords

GridInit ==
    /\ brainmask \in MaskImages
    /\ margin \in 0..MaxMargin
    /\ boundaries = <<>>
    /\ coords = <<>>
    /\ shape = <<>>
    /\ grid_pc = "call"
    /\ MeshIdle /\ HemiIdle /\ SessIdle /\ WorkIdle

SpecGrid == GridInit /\ [][GridNext]_vars

\* World position of voxel v of the mask as loaded.
WorldOf(img, v) == Apply(img.affine, Homogeneous(v))

\* C5: for a mask with a nonzero voxel anywhere and any margin >= 0, the
\* enumerated grid contains every nonzero voxel of the mask.
C5_GridContainsMask ==
    grid_pc = "return" =>
        \A v \in brainmask.nonzero :
            \E r \in DOMAIN coords : coords[r] = WorldOf(brainmask, v)

\* Smallest and largest index on axis d holding a nonzero voxel.
First(data, d) == CHOOSE i \in {v[d] : v \in data.nonzero} : \A v \in data.nonzero : i <= v[d]
Last(data, d) == CHOOSE i \in {v[d] : v \in data.nonzero} : \A v \in data.nonzero : i >= v[d]

\* C6: for a mask with a nonzero voxel and the margin m that was passed, the
\* indices enumerated on each axis are exactly max(first - m, 0) through
\* min(last + m, size - 1).
C6_BoxIsTightPlusMargin ==
    (grid_pc = "return" /\ brainmask.nonzero # {}) =>
        LET canonical == as_closest_canonical(brainmask)
        IN \A d \in Axes :
            {Apply(Translation([a \in Axes |-> -canonical.affine[a][4]]), coords[r])[d] : r \in DOMAIN coords}
              = Max(First(canonical, d) - margin, 0)
                  .. Min(Last(canonical, d) + margin, canonical.shape[d] - 1)
-----------------------------------------------------------------------------
(* Surface sampling coordinates *)

NFracs == 6

Add3(a, b) == <<a[1] + b[1], a[2] + b[2], a[3] + b[3]>>
Sub3(a, b) == <<a[1] - b[1], a[2] - b[2], a[3] - b[3]>>
Scale3(k, a) == <<k * a[1], k * a[2], k * a[3]>>
Div3(a, k) == <<a[1] \div k, a[2] \div k, a[3] \div k>>
Cross(a, b) ==
    <<a[2] * b[3] - a[3] * b[2], a[3] * b[1] - a[1] * b[3], a[1] * b[2] - a[2] * b[1]>>

\* v / np.linalg.norm(v) for a vector along one axis (the meshes of the model
\* are flat, so every cross product is).
Unit(v) ==
    LET Sign(x) == IF x > 0 THEN 1 ELSE IF x < 0 THEN -1 ELSE 0
    IN  <<Sign(v[1]), Sign(v[2]), Sign(v[3])>>

RECURSIVE SumVecs(_, _)
\* The sum of the 3-vectors f[x], x in S.
SumVecs(f, S) ==
    IF S = {} THEN <<0, 0, 0>>
    ELSE LET x == CHOOSE y \in S : TRUE IN Add3(f[x], SumVecs(f, S \ {x}))

\* compute_vertex_normals_sine_weight.  edges = roll(f_coords, 1) - f_coords;
\* vertex f[k] accumulates cross(edges[k], edges[k+1]).  A positive rescaling
\* of an edge keeps the direction of each cross product, and every vertex of
\* the model's meshes lies on one face, so the unit normal is exact.
compute_vertex_normals_sine_weight(crds, faces) ==
    LET edge(f, k) == Sub3(crds[faces[f][IF k = 1 THEN 3 ELSE k - 1]], crds[faces[f][k]])
        contrib(f, k) == Cross(edge(f, k), edge(f, IF k = 3 THEN 1 ELSE k + 1))
        hits(v) == {fk \in (DOMAIN faces) \X (1..3) : faces[fk[1]][fk[2]] = v}
    IN [v \in DOMAIN crds |->
          Unit(SumVecs([fk \in hits(v) |-> contrib(fk[1], fk[2])], hits(v)))]

\* compute_vertex_normals_equal_weight: each face's unit normal, added to its
\* three vertices, normalised per vertex.
compute_vertex_normals_equal_weight(crds, faces) ==
    LET face_normal(f) ==
            Unit(Cross(Sub3(crds[faces[f][2]], crds[faces[f][1]]),
                       Sub3(crds[faces[f][3]], crds[faces[f][2]])))
        touching(v) == {f \in DOMAIN faces : \E k \in 1..3 : faces[f][k] = v}
    IN [v \in DOMAIN crds |->
          Unit(SumVecs([f \in touching(v) |-> face_normal(f)], touching(v)))]

\* Row r (1-based) of an (n_vertices, NFracs) array flattened in C order.
VertexOfRow(r) == ((r - 1) \div NFracs) + 1
FracOfRow(r) == (r - 1) % NFracs

\* surface_coords_normal: white + c_ras + normal * thickness * frac, flattened,
\* with the homogeneous 1; and the shape (n_vertices, n_fracs).
surface_coords_normal(white, cras, normals, thicknesses) ==
    [coords |->
        [r \in 1..(Len(white) * NFracs) |->
            Homogeneous(Add3(Add3(white[VertexOfRow(r)], cras),
                             Div3(Scale3(thicknesses[VertexOfRow(r)] * FracOfRow(r),
                                         normals[VertexOfRow(r)]),
                                  NFracs - 1)))],
     shape |-> <<Len(white), NFracs>>]

\* surface_coords_pial: (white + c_ras) * (1 - frac) + (pial + c_ras) * frac.
surface_coords_pial(white, cras, pial) ==
    [coords |->
        [r \in 1..(Len(white) * NFracs) |->
            Homogeneous(Div3(Add3(Scale3(NFracs - 1 - FracOfRow(r), Add3(white[VertexOfRow(r)], cras)),
                                  Scale3(FracOfRow(r), Add3(pial[VertexOfRow(r)], cras))),
                             NFracs - 1))],
     shape |-> <<Len(white), NFracs>>]
-----------------------------------------------------------------------------
(* Hemisphere *)

MaxSpaces == 3

\* A dict with d[k] = v set.
DictSet(d, k, v) == [x \in (DOMAIN d) \cup {k} |-> IF x = k THEN v ELSE d[x]]

\* The FreeSurfer files of the subject: a flat triangle as the white surface
\* (even coordinates, so that edge midpoints are integer), the pial surface 10
\* above it except at vertex 2, where the cortex has no thickness, and the
\* triangle's vertices on the registration sphere.
NativeWhite == <<<<0, 0, 0>>, <<2, 0, 0>>, <<0, 2, 0>>>>
NativeFaces == <<<<1, 2, 3>>>>
NativePial == <<<<0, 0, 10>>, <<2, 0, 0>>, <<0, 2, 10>>>>
NativeThickness == <<10, 0, 10>>
NativeSphereReg == <<<<1, 0, 0>>, <<0, 1, 0>>, <<0, 0, 1>>>>
FsavgSphereReg == <<<<1, 0, 0>>, <<-1, 0, 0>>>>

\* mri/T1.mgz: its shape and affine.
T1 == [shape |-> <<2, 2, 4>>, affine |-> Translation(<<0, -1, 1>>)]

\* The arguments resample is called with.  A query point of new_coords is
\* given by what Surface.compute_barycentric_weights finds for it: the face
\* that contains it and its barycentric weights there (integers, to be divided
\* by their sum).  new_faces = <<>> stands for None.
SpaceNames == {"onavg", "fslr"}
NewCoords == { << <<1, <<1, 0, 0>>>> >>, << <<1, <<1, 1, 0>>>>, <<1, <<0, 0, 1>>>> >> }
NoFaces == <<>>

NoCall == [op |-> "none", space_name |-> "", new_coords |-> <<>>, new_faces |-> <<>>]
Call(op, name, nc, nf) == [op |-> op, space_name |-> name, new_coords |-> nc, new_faces |-> nf]

HemiNew ==
    /\ spaces = <<>>
    /\ hemi = <<>>
    /\ c_ras = <<>>
    /\ fsavg_sphere = <<>>
    /\ hemi_pc = "new"
    /\ hemi_call = NoCall
    /\ hemi_raised = "none"

\* native of load_data.
LoadedNative ==
    [k \in {"white", "faces", "pial", "thickness", "sphere.reg", "name"} |->
        CASE k = "white" -> NativeWhite
          [] k = "faces" -> NativeFaces
          [] k = "pial" -> NativePial
          [] k = "thickness" -> NativeThickness
          [] k = "sphere.reg" -> NativeSphereReg
          [] k = "name" -> "native"]

\* c_ras of load_data: the world position of the centre voxel of T1.
LoadedCRas ==
    LET c == Apply(T1.affine, <<T1.shape[1] \div 2, T1.shape[2] \div 2, T1.shape[3] \div 2, 1>>)
    IN <<c[1], c[2], c[3]>>

\* Hemisphere.__init__, first step: self.spaces = [] and load_data().
LoadData ==
    /\ hemi_pc = "new"
    /\ hemi_pc' = "loaded"
    /\ hemi' = [n \in {"native"} |-> LoadedNative]
    /\ spaces' = Append(<<>>, "native")
    /\ c_ras' = LoadedCRas
    /\ UNCHANGED <<fsavg_sphere, hemi_call, hemi_raised>>
    /\ OnlyHemi

\* The exception compute_coordinates(space_name) raises, "none" if it returns.
ComputeCoordinatesRaises(h, name) ==
    IF name \notin DOMAIN h THEN "AttributeError"
    ELSE IF name = "native" /\ ~({"white", "faces", "thickness"} \subseteq DOMAIN h[name]) THEN "KeyError"
    ELSE IF ~({"white", "pial"} \subseteq DOMAIN h[name]) THEN "KeyError"
    ELSE "none"

WithNormalCoordsSineOnlyMutant(space, cras) ==
    LET ns == compute_vertex_normals_sine_weight(space["white"], space["faces"])
        cs == surface_coords_normal(space["white"], cras, ns, space["thickness"])
    IN DictSet(DictSet(DictSet(space, "normals_sine", ns),
            "coords_normals_sine", cs.coords), "shape", cs.shape)

\* The native branch of compute_coordinates: both normal sets, both
\* normal-offset coordinate sets and the shape of the first.
WithNormalCoords(space, cras) ==
    LET ns == compute_vertex_normals_sine_weight(space["white"], space["faces"])
        ne == compute_vertex_normals_equal_weight(space["white"], space["faces"])
        cs == surface_coords_normal(space["white"], cras, ns, space["thickness"])
        ce == surface_coords_normal(space["white"], cras, ne, space["thickness"])
    IN DictSet(DictSet(DictSet(DictSet(DictSet(space,
            "normals_sine", ns), "normals_equal", ne),
            "coords_normals_sine", cs.coords), "shape", cs.shape),
            "coords_normals_equal", ce.coords)

WithPialCoordsNoShapeMutant(space, cras) ==
    DictSet(space, "coords_pial", surface_coords_pial(space["white"], cras, space["pial"]).coords)

\* The common tail of compute_coordinates: the pial-interpolated coordinates,
\* and the shape unless the space has one.
WithPialCoords(space, cras) ==
    LET cp == surface_coords_pial(space["white"], cras, space["pial"])
        s1 == DictSet(space, "coords_pial", cp.coords)
    IN IF "shape" \in DOMAIN space THEN s1 ELSE DictSet(s1, "shape", cp.shape)

\* The two asserts of compute_coordinates hold.
ShapesAgree(space, cras) ==
    /\ space["name"] = "native" =>
         surface_coords_normal(space["white"], cras,
             compute_vertex_normals_equal_weight(space["white"], space["faces"]),
             space["thickness"]).shape
           = surface_coords_normal(space["white"], cras,
                 compute_vertex_normals_sine_weight(space["white"], space["faces"]),
                 space["thickness"]).shape
    /\ "shape" \in DOMAIN space =>
         surface_coords_pial(space["white"], cras, space["pial"]).shape = space["shape"]

\* The space dict after compute_coordinates(space_name) has run on it.
compute_coordinates(h, name, cras) ==
    WithPialCoords(IF name = "native" THEN WithNormalCoords(h[name], cras) ELSE h[name], cras)

\* Hemisphere.__init__, second step: compute_coordinates() on the native space.
ConstructCoordinates ==
    /\ hemi_pc = "loaded"
    /\ hemi_pc' = "coordinates"
    /\ hemi' = [hemi EXCEPT !["native"] = compute_coordinates(hemi, "native", c_ras)]
    /\ UNCHANGED <<spaces, c_ras, fsavg_sphere, hemi_call, hemi_raised>>
    /\ OnlyHemi

\* Hemisphere.__init__, third step: compute_transformation().
ComputeTransformation ==
    /\ hemi_pc = "coordinates"
    /\ hemi_pc' = "constructed"
    /\ fsavg_sphere' = FsavgSphereReg
    /\ \E fwd \in Query(hemi["native"]["sphere.reg"], FsavgSphereReg) :
         \E rev \in Query(FsavgSphereReg, RemainingPoints(hemi["native"]["sphere.reg"], fwd)) :
            hemi' = [hemi EXCEPT !["native"] =
                        DictSet(@, "to_fsavg",
                            nnfr_transformation(hemi["native"]["sphere.reg"], FsavgSphereReg,
                                                TRUE, fwd, rev))]
    /\ UNCHANGED <<spaces, c_ras, hemi_call, hemi_raised>>
    /\ OnlyHemi

\* new_values of resample for one attribute: the values at the three vertices
\* of the containing face, blended by the barycentric weights.
BarycentricBlend(values, faces, new_coords) ==
    [k \in DOMAIN new_coords |->
        LET f == faces[new_coords[k][1]]
            w == new_coords[k][2]
        IN Div3(Add3(Add3(Scale3(w[1], values[f[1]]), Scale3(w[2], values[f[2]])),
                     Scale3(w[3], values[f[3]])),
                w[1] + w[2] + w[3])]

\* The dict resample builds: white and pial transported, faces if given, name.
Resampled(native, name, new_coords, new_faces) ==
    LET base == [k \in {"white", "pial", "name"} |->
                   CASE k = "white" -> BarycentricBlend(native["white"], native["faces"], new_coords)
                     [] k = "pial" -> BarycentricBlend(native["pial"], native["faces"], new_coords)
                     [] k = "name" -> name]
    IN IF new_faces # NoFaces THEN DictSet(base, "faces", new_faces) ELSE base

\* Hemisphere.resample(space_name, new_coords, new_faces).
Resample(name, new_coords, new_faces) ==
    /\ hemi_pc = "constructed"
    /\ Len(spaces) < MaxSpaces
    /\ hemi_call' = Call("resample", name, new_coords, new_faces)
    /\ IF {"sphere.reg", "faces", "white", "pial"} \subseteq DOMAIN hemi["native"]
       THEN /\ hemi' = DictSet(hemi, name, Resampled(hemi["native"], name, new_coords, new_faces))
            /\ spaces' = Append(spaces, name)
            /\ hemi_raised' = "none"
       ELSE /\ hemi_raised' = "KeyError"
            /\ UNCHANGED <<hemi, spaces>>
    /\ UNCHANGED <<c_ras, fsavg_sphere, hemi_pc>>
    /\ OnlyHemi

\* Hemisphere.compute_coordinates(space_name), called on the constructed object.
ComputeCoordinates(name) ==
    /\ hemi_pc = "constructed"
    /\ hemi_call' = Call("compute_coordinates", name, <<>>, <<>>)
    /\ hemi_raised' =
         IF ComputeCoordinatesRaises(hemi, name) # "none" THEN ComputeCoordinatesRaises(hemi, name)
         ELSE IF ~ShapesAgree(hemi[name], c_ras) THEN "AssertionError"
         ELSE "none"
    /\ IF ComputeCoordinatesRaises(hemi, name) = "none"
       THEN hemi' = [hemi EXCEPT ![name] = compute_coordinates(hemi, name, c_ras)]
       ELSE UNCHANGED hemi
    /\ UNCHANGED <<spaces, c_ras, fsavg_sphere, hemi_pc>>
    /\ OnlyHemi

HemiNext ==
    \/ LoadData
    \/ ConstructCoordinates
    \/ ComputeTransformation
    \/ \E name \in SpaceNames, nc \in NewCoords, nf \in {NoFaces, <<<<1, 1, 1>>>>} : Resample(name, nc, nf)
    \/ \E name \in SpaceNames \cup {"native"} : ComputeCoordinates(name)

HemiInit == HemiNew /\ MeshIdle /\ GridIdle /\ SessIdle /\ WorkIdle

SpecHemi == HemiInit /\ [][HemiNext]_vars
\* C8: after resample(space_name, new_coords, new_faces) returns, the new space
\* holds the transported white and pial coordinates and also its recomputed
\* pial-interpolated sampling coordinates with their output shape, which is
\* what interpolate_surface reads for the pial projection.
C8_ResampledSpaceHasPialCoords ==
    (hemi_call.op = "resample" /\ hemi_raised = "none") =>
        LET space == hemi[hemi_call.space_name]
            native == hemi["native"]
        IN /\ {"white", "pial", "coords_pial", "shape"} \subseteq DOMAIN space
           /\ space["white"] = BarycentricBlend(native["white"], native["faces"], hemi_call.new_coords)
           /\ space["pial"] = BarycentricBlend(native["pial"], native["faces"], hemi_call.new_coords)
           /\ space["coords_pial"] = surface_coords_pial(space["white"], c_ras, space["pial"]).coords
           /\ space["shape"] = <<Len(space["white"]), NFracs>>

\* C8 as amended: resample leaves the new space with the transported white and
\* pial coordinates only (with its name, and the faces when given); a following
\* compute_coordinates(space_name) adds the pial-interpolated sampling
\* coordinates and their output shape, the entries interpolate_surface reads
\* for the pial projection.
C8_ResampleThenComputeCoordinates ==
    /\ (hemi_call.op = "resample" /\ hemi_raised = "none") =>
         LET space == hemi[hemi_call.space_name]
             native == hemi["native"]
         IN /\ DOMAIN space = {"white", "pial", "name"}
                \cup (IF hemi_call.new_faces # NoFaces THEN {"faces"} ELSE {})
            /\ space["white"] = BarycentricBlend(native["white"], native["faces"], hemi_call.new_coords)
            /\ space["pial"] = BarycentricBlend(native["pial"], native["faces"], hemi_call.new_coords)
    /\ (hemi_call.op = "compute_coordinates" /\ hemi_call.space_name \in SpaceNames
        /\ hemi_raised = "none") =>
         LET space == hemi[hemi_call.space_name]
         IN /\ {"coords_pial", "shape"} \subseteq DOMAIN space
            /\ space["coords_pial"] = surface_coords_pial(space["white"], c_ras, space["pial"]).coords
            /\ space["shape"] = <<Len(space["white"]), NFracs>>
            /\ Len(space["coords_pial"]) = space["shape"][1] * space["shape"][2]

\* compute_coordinates has returned on a resampled space of two vertices.
C8_Witness ==
    /\ hemi_call.op = "compute_coordinates"
    /\ hemi_call.space_name \in SpaceNames
    /\ hemi_raised = "none"
    /\ Len(hemi[hemi_call.space_name]["white"]) = 2
    /\ "coords_pial" \in DOMAIN hemi[hemi_call.space_name]

\* C9: a second resample with the same space name and the same inputs leaves
\* the hemisphere as the first call left it: the named space identical, the
\* collection of spaces unchanged, the name recorded once.
C9_ResampleIdempotent ==
    [][(/\ hemi_call.op = "resample"
        /\ hemi_raised = "none"
        /\ hemi_call' = hemi_call
        /\ hemi_raised' = "none")
       => (hemi' = hemi /\ spaces' = spaces)]_vars
-----------------------------------------------------------------------------
(* interpolate_original_space: the transform chain and the sampling *)

\* np.nan, the cval of the intensity sampling; a number x; a rational <<n, d>>.
NaN == <<0, 0>>
IsNaN(x) == x[2] = 0
Num(x) == <<x, 1>>

\* IEEE arithmetic on rationals: a NaN operand makes the result NaN.
RatAdd(a, b) == IF IsNaN(a) \/ IsNaN(b) THEN NaN ELSE <<a[1] * b[2] + b[1] * a[2], a[2] * b[2]>>
RatMul(a, b) == IF IsNaN(a) \/ IsNaN(b) THEN NaN ELSE <<a[1] * b[1], a[2] * b[2]>>

RECURSIVE RatSum(_, _)
\* The sum of the rationals f[x], x in S.
RatSum(f, S) ==
    IF S = {} THEN Num(0)
    ELSE LET x == CHOOSE y \in S : TRUE IN RatAdd(f[x], RatSum(f, S \ {x}))

\* np.linalg.inv of an affine whose linear part is a signed permutation:
\* the transposed linear part, and minus its product with the translation.
InvAffine(A) ==
    << <<A[1][1], A[2][1], A[3][1], -(A[1][1] * A[1][4] + A[2][1] * A[2][4] + A[3][1] * A[3][4])>>,
       <<A[1][2], A[2][2], A[3][2], -(A[1][2] * A[1][4] + A[2][2] * A[2][4] + A[3][2] * A[3][4])>>,
       <<A[1][3], A[2][3], A[3][3], -(A[1][3] * A[1][4] + A[2][3] * A[2][4] + A[3][3] * A[3][4])>>,
       <<0, 0, 0, 1>> >>

\* The voxel indices of an array of shape shp.
Voxels(shp) == (0..(shp[1] - 1)) \X (0..(shp[2] - 1)) \X (0..(shp[3] - 1))

\* The point p lies within the extent of an array of shape shp.
InBounds(shp, p) == \A d \in Axes : 0 <= p[d] /\ p[d] <= shp[d] - 1

\* map_coordinates(input, p, order, prefilter=False, cval) at a point p with
\* integer coordinates (mode='constant').  Beyond the edges the value is cval.
\* Within them the spline of the requested order passes through the data:
\* orders 0 and 1 take the array itself, an order above 1 takes the
\* coefficients spline_filter made for that order (input.spline).
map_coordinates(input, p, kwargs) ==
    IF ~InBounds(input.shape, p) THEN kwargs.cval
    ELSE CASE kwargs.order <= 1 /\ input.spline = 0 -> Num(input.values[<<p[1], p[2], p[3]>>])
           [] kwargs.order > 1 /\ ~kwargs.prefilter /\ input.spline = kwargs.order ->
                Num(input.values[<<p[1], p[2], p[3]>>])

\* spline_filter(data, order): the coefficients of the order's spline through data.
spline_filter(data, order) == [data EXCEPT !.spline = order]

\* map_coordinates(warp[:, :, :, 0, j], ijk, order=1): the default cval is 0.
WarpDiff(warp, ijk, j) ==
    IF InBounds(warp.shape, ijk) THEN warp.values[<<ijk[1], ijk[2], ijk[3]>>][j] ELSE 0

\* Lines 131-135 for one row of cc: the three displacement components are
\* sampled at ijk and subtracted from the row's coordinates.
Unwarped(row, warp, warp_affine) ==
    LET ijk == Apply(InvAffine(warp_affine), row)
    IN <<row[1] - WarpDiff(warp, ijk, 1), row[2] - WarpDiff(warp, ijk, 2),
         row[3] - WarpDiff(warp, ijk, 3), row[4]>>

\* Lines 130-139 for volume i: the flat sample vector.
Samples(data, affine, crds, hmc_i, warp, warp_affine, kwargs) ==
    [r \in DOMAIN crds |->
        map_coordinates(data,
            Apply(InvAffine(affine), Apply(hmc_i, Unwarped(crds[r], warp, warp_affine))),
            kwargs)]

PlainMeanMutant(row) ==
    IF \E j \in DOMAIN row : IsNaN(row[j]) THEN NaN
    ELSE <<SumSet([j \in DOMAIN row |-> row[j][1]], DOMAIN row), Len(row)>>

\* np.nanmean of one row of samples: the sum of the samples that are not NaN
\* over their number; NaN when there is none.
NanMean(row) ==
    LET present == {j \in DOMAIN row : ~IsNaN(row[j])}
    IN IF present = {} THEN NaN
       ELSE <<SumSet([j \in present |-> row[j][1]], present), Cardinality(present)>>

\* Lines 139-142: reshape(shape), and the mean over axis 1 of a 2-D result.
\* A 3-D result stays the flat vector in C order.
Reshaped(samples, shp) ==
    IF Len(shp) = 2
    THEN [v \in 1..shp[1] |-> NanMean([j \in 1..shp[2] |-> samples[(v - 1) * shp[2] + j]])]
    ELSE samples

CallerCoordsMovedMutant(crds, lta, ref_to_t1) == ApplyAll(MatMul(ref_to_t1, lta), crds)

\* The array the caller passed as coords, after the call: line 127 binds the
\* product to a new array and line 129 copies that before the in-place
\* subtraction of line 135, so the caller's array is never written.
CallerCoords(crds, lta, ref_to_t1) == crds

\* interpolate_original_space: the exception it raises ("none": it returns),
\* interps, and the caller's coords array afterwards.  zip stops at the shorter of nii_data and nii_affines; a volume
\* without its warp or head-motion entry is an IndexError; np.stack of no
\* array is a ValueError.
interpolate_original_space(nii_data, nii_affines, crds, shp, lta, ref_to_t1, hmc, warp_data, warp_affines, kwargs) ==
    LET n == Min(Len(nii_data), Len(nii_affines))
        moved == ApplyAll(MatMul(ref_to_t1, lta), crds)
    IN IF n > Len(warp_data) \/ n > Len(warp_affines) \/ n > Len(hmc)
       THEN [raised |-> "IndexError", value |-> <<>>, coords |-> CallerCoords(crds, lta, ref_to_t1)]
       ELSE IF n = 0
       THEN [raised |-> "ValueError", value |-> <<>>, coords |-> CallerCoords(crds, lta, ref_to_t1)]
       ELSE [raised |-> "none",
             coords |-> CallerCoords(crds, lta, ref_to_t1),
             value |-> [i \in 1..n |->
                          Reshaped(Samples(nii_data[i], nii_affines[i], moved, hmc[i],
                                           warp_data[i], warp_affines[i], kwargs), shp)]]

-----------------------------------------------------------------------------
(* Interpolator: one subject's session *)

MaxVols == 2
MaxOrder == 2

\* The spline orders a caller asks for.
Orders == 0..MaxOrder

\* brainmask.mgz of the subject.
BrainmaskFile ==
    [shape |-> <<1, 1, 4>>, nonzero |-> {<<0, 0, 1>>},
     ornt |-> <<<<1, 1>>, <<2, 1>>, <<3, 1>>>>,
     affine |-> ImageAffine(<<<<1, 1>>, <<2, 1>>, <<3, 1>>>>, <<1, 0, 3>>)]

NiiShape == <<3, 3, 4>>

\* bold_split/vol<i>.nii.gz: the array and the affine of source volume i.
NiiFile(i) ==
    [data |-> [shape |-> NiiShape, spline |-> 0,
               values |-> [v \in Voxels(NiiShape) |-> 100 * i + 16 * v[1] + 4 * v[2] + v[3]]],
     affine |-> Translation(<<0, 0, 1>>)]

\* unwarp_wf/resample/vol<i>_xfm.nii.gz: the displacement field of volume i.
WarpFile(i) ==
    [data |-> [shape |-> NiiShape,
               values |-> [v \in Voxels(NiiShape) |->
                             IF v = <<2, 0, 2>> THEN <<1, 0, 0>> ELSE <<0, 0, 0>>]],
     affine |-> Identity4]

\* mat2itk.txt (one head-motion transform per source volume), out_fwd.tfm, out.lta.
HmcFile(n) == [i \in 1..n |-> Translation(<<0, 0, -i>>)]
RefToT1File == Translation(<<-1, 0, 0>>)
LtaFile == Translation(<<0, 0, -1>>)

\* The attributes Interpolator.__init__ sets that the methods read.
NewSession ==
    [interp_kwargs |-> [order |-> 3, prefilter |-> FALSE, cval |-> NaN],
     filtered |-> <<>>]

ProjectionTypes == {"normals_sine", "normals_equal", "pial"}

\* 'coords_' + projection_type
CoordsKey(projection_type) ==
    CASE projection_type = "normals_sine" -> "coords_normals_sine"
      [] projection_type = "normals_equal" -> "coords_normals_equal"
      [] projection_type = "pial" -> "coords_pial"

\* The native space of a constructed Hemisphere, one per answer of the k-d trees.
NativeSpaces ==
    LET native == compute_coordinates([n \in {"native"} |-> LoadedNative], "native", LoadedCRas)
    IN UNION { { DictSet(native, "to_fsavg",
                         nnfr_transformation(NativeSphereReg, FsavgSphereReg, TRUE, fwd, rev)) :
                   rev \in Query(FsavgSphereReg, RemainingPoints(NativeSphereReg, fwd)) } :
               fwd \in Query(NativeSphereReg, FsavgSphereReg) }

\* The spaces a Hemisphere hands to interpolate_surface: its native space, a
\* space resample made, and that space after compute_coordinates.
SurfaceSpaces ==
    LET onavg(nc) == Resampled(LoadedNative, "onavg", nc, NoFaces)
    IN NativeSpaces
         \cup {onavg(nc) : nc \in NewCoords}
         \cup {WithPialCoords(onavg(nc), LoadedCRas) : nc \in NewCoords}

ReturnedNone == [none |-> TRUE, value |-> <<>>]
Returned(value) == [none |-> FALSE, value |-> value]

SessCall(op, orders, order, projection_type, standard_space) ==
    [op |-> op, orders |-> orders, order |-> order, projection_type |-> projection_type,
     standard_space |-> standard_space]

\* Interpolator(sid, label, fs_dir, wf_dir) has been constructed on a working
\* directory with some number of source volumes and of displacement fields.
SessNew ==
    /\ wf_dir \in [nii_fns : 0..MaxVols, warp_fns : 0..MaxVols]
    /\ session = NewSession
    /\ sess_pc = "constructed"
    /\ sess_call = SessCall("none", <<>>, 0, "", FALSE)
    /\ sess_raised = "none"
    /\ sess_ret = ReturnedNone
    /\ surface \in SurfaceSpaces
    /\ spline_runs = [o \in Orders |-> 0]

GetFilteredEntryFirstMutant(sess, order) ==
    IF "nii_data" \notin DOMAIN sess
    THEN [raised |-> "AttributeError",
          session |-> IF order > 1
                      THEN DictSet(sess, "filtered", DictSet(sess["filtered"], order, <<>>))
                      ELSE sess,
          data |-> <<>>, runs |-> 0]
    ELSE [raised |-> "none", session |-> sess, data |-> sess["nii_data"], runs |-> 0]

GetFilteredUncachedMutant(sess, order) ==
    IF "nii_data" \notin DOMAIN sess
    THEN [raised |-> "AttributeError", session |-> sess, data |-> <<>>, runs |-> 0]
    ELSE IF order > 1
    THEN LET coeffs == [k \in DOMAIN sess["nii_data"] |-> spline_filter(sess["nii_data"][k], order)]
         IN [raised |-> "none",
             session |-> DictSet(sess, "filtered", DictSet(sess["filtered"], order, coeffs)),
             data |-> coeffs, runs |-> 1]
    ELSE [raised |-> "none", session |-> sess, data |-> sess["nii_data"], runs |-> 0]

\* _get_filtered_data(order): the exception raised, the session afterwards, the
\* value, and the number of prefilter passes over the source volumes it made.
get_filtered_data(sess, order) ==
    IF order > 1 /\ order \in DOMAIN sess["filtered"]
    THEN [raised |-> "none", session |-> sess, data |-> sess["filtered"][order], runs |-> 0]
    ELSE IF "nii_data" \notin DOMAIN sess
    THEN [raised |-> "AttributeError", session |-> sess, data |-> <<>>, runs |-> 0]
    ELSE IF order > 1
    THEN LET coeffs == [k \in DOMAIN sess["nii_data"] |-> spline_filter(sess["nii_data"][k], order)]
         IN [raised |-> "none",
             session |-> DictSet(sess, "filtered", DictSet(sess["filtered"], order, coeffs)),
             data |-> coeffs, runs |-> 1]
    ELSE [raised |-> "none", session |-> sess, data |-> sess["nii_data"], runs |-> 0]

\* Several attribute assignments at once: the entries of e set on d.
DictMerge(d, e) == [x \in (DOMAIN d) \cup (DOMAIN e) |-> IF x \in DOMAIN e THEN e[x] ELSE d[x]]

PrefilteredLazilyMutant(sess, orders, k) == sess

RECURSIVE Prefiltered(_, _, _)
\* Lines 246-249 of prepare, from position k of orders on.
Prefiltered(sess, orders, k) ==
    IF k > Len(orders) THEN sess
    ELSE IF orders[k] > 1 /\ orders[k] \notin DOMAIN sess["filtered"]
    THEN Prefiltered(get_filtered_data(sess, orders[k]).session, orders, k + 1)
    ELSE Prefiltered(sess, orders, k + 1)

RECURSIVE PrefilterLog(_, _, _)
\* The orders, in turn, for which lines 246-249 of prepare made a prefilter
\* pass, from position k of orders on.
PrefilterLog(sess, orders, k) ==
    IF k > Len(orders) THEN <<>>
    ELSE IF orders[k] > 1 /\ orders[k] \notin DOMAIN sess["filtered"]
    THEN LET g == get_filtered_data(sess, orders[k])
         IN (IF g.runs = 1 THEN <<orders[k]>> ELSE <<>>) \o PrefilterLog(g.session, orders, k + 1)
    ELSE PrefilterLog(sess, orders, k + 1)

\* prepare(orders) on a working directory dir: the exception raised, the
\* session afterwards, and the orders a prefilter pass was made for.  The assert on the two file counts comes after the
\* brain mask, the grid and the three transforms have been set.
prepare(sess, dir, orders) ==
    LET grid == canonical_volume_coords(BrainmaskFile, 2)
        s1 == DictMerge(sess,
                  [brainmask |-> BrainmaskFile, vol_coords |-> grid.coords, vol_shape |-> grid.shape,
                   hmc |-> HmcFile(dir.nii_fns), ref_to_t1 |-> RefToT1File, lta |-> LtaFile])
        s2 == DictMerge(s1,
                  [nii_data |-> [i \in 1..dir.nii_fns |-> NiiFile(i).data],
                   nii_affines |-> [i \in 1..dir.nii_fns |-> NiiFile(i).affine]])
        s3 == DictMerge(Prefiltered(s2, orders, 1),
                  [warp_data |-> [i \in 1..dir.warp_fns |-> WarpFile(i).data],
                   warp_affines |-> [i \in 1..dir.warp_fns |-> WarpFile(i).affine]])
    IN IF dir.nii_fns # dir.warp_fns
       THEN [raised |-> "AssertionError", session |-> s1, runs |-> <<>>]
       ELSE [raised |-> "none", session |-> s3, runs |-> PrefilterLog(s2, orders, 1)]

\* interp @ to_fsavg for one volume: the sparse product runs over the stored
\* (nonzero) entries of each column.
Transported(row, W) ==
    [t \in DOMAIN W[1] |->
        LET stored == {s \in DOMAIN W : W[s][t][1] # 0}
        IN RatSum([s \in stored |-> RatMul(row[s], W[s][t])], stored)]

\* Lines 265-270 and 276-281: the filtered data, the copy of interp_kwargs with
\* the order, and interpolate_original_space on the coordinates crds of shape
\* shp; coords is the array crds names, after the call.
Interpolated(sess, crds, shp, order) ==
    LET g == get_filtered_data(sess, order)
    IN IF g.raised # "none"
       THEN [raised |-> g.raised, session |-> g.session, value |-> <<>>, coords |-> crds]
       ELSE IF ~({"nii_affines", "lta", "ref_to_t1", "hmc", "warp_data", "warp_affines"}
                   \subseteq DOMAIN sess)
       THEN [raised |-> "AttributeError", session |-> g.session, value |-> <<>>, coords |-> crds]
       ELSE LET r == interpolate_original_space(g.data, sess["nii_affines"], crds, shp,
                         sess["lta"], sess["ref_to_t1"], sess["hmc"],
                         sess["warp_data"], sess["warp_affines"],
                         [sess["interp_kwargs"] EXCEPT !.order = order])
            IN [raised |-> r.raised, session |-> g.session, value |-> r.value, coords |-> r.coords]

\* interpolate_surface(space, projection_type, standard_space, order): the
\* exception raised, the session and the caller's space dict afterwards, and
\* the value returned.
interpolate_surface(sess, space, projection_type, standard_space, order) ==
    LET g == get_filtered_data(sess, order)
    IN IF g.raised # "none"
       THEN [raised |-> g.raised, session |-> g.session, space |-> space, ret |-> ReturnedNone]
       ELSE IF "nii_affines" \notin DOMAIN sess
       THEN [raised |-> "AttributeError", session |-> g.session, space |-> space, ret |-> ReturnedNone]
       ELSE IF CoordsKey(projection_type) \notin DOMAIN space \/ "shape" \notin DOMAIN space
       THEN [raised |-> "KeyError", session |-> g.session, space |-> space, ret |-> ReturnedNone]
       ELSE LET r == Interpolated(sess, space[CoordsKey(projection_type)], space["shape"], order)
                after == DictSet(space, CoordsKey(projection_type), r.coords)
            IN IF r.raised # "none"
               THEN [raised |-> r.raised, session |-> r.session, space |-> after, ret |-> ReturnedNone]
               ELSE IF ~standard_space
               THEN [raised |-> "none", session |-> r.session, space |-> after, ret |-> Returned(r.value)]
               ELSE IF "to_fsavg" \notin DOMAIN space
               THEN [raised |-> "KeyError", session |-> r.session, space |-> after, ret |-> ReturnedNone]
               ELSE IF Len(space["to_fsavg"]) # space["shape"][1]
               THEN [raised |-> "ValueError", session |-> r.session, space |-> after, ret |-> ReturnedNone]
               ELSE [raised |-> "none", session |-> r.session, space |-> after,
                     ret |-> Returned([i \in DOMAIN r.value |->
                                          Transported(r.value[i], space["to_fsavg"])])]

\* interpolate_volume(order): interp is computed on the volume grid and the
\* method ends without a return statement.
interpolate_volume(sess, order) ==
    LET g == get_filtered_data(sess, order)
    IN IF g.raised # "none" THEN [raised |-> g.raised, session |-> g.session, ret |-> ReturnedNone]
       ELSE IF ~({"nii_affines", "vol_coords", "vol_shape"} \subseteq DOMAIN sess)
       THEN [raised |-> "AttributeError", session |-> g.session, ret |-> ReturnedNone]
       ELSE LET r == Interpolated(sess, sess["vol_coords"], sess["vol_shape"], order)
            IN [raised |-> r.raised, session |-> DictSet(r.session, "vol_coords", r.coords),
                ret |-> ReturnedNone]

\* The orders lists prepare is called with.
PrepareOrders == SeqsOf(Orders, 0, 1) \cup {<<2, MaxOrder>>}

\* One call prepare(orders).
Prepare(orders) ==
    /\ sess_pc = "constructed"
    /\ sess_call' = SessCall("prepare", orders, 0, "", FALSE)
    /\ \E r \in {prepare(session, wf_dir, orders)} :
          /\ session' = r.session
          /\ sess_raised' = r.raised
          /\ spline_runs' = [o \in Orders |->
                                spline_runs[o] + Cardinality({k \in DOMAIN r.runs : r.runs[k] = o})]
    /\ sess_ret' = ReturnedNone
    /\ UNCHANGED <<wf_dir, sess_pc, surface>>
    /\ OnlySess

\* One call interpolate_surface(surface, projection_type, standard_space, order).
InterpolateSurface(projection_type, standard_space, order) ==
    /\ sess_pc = "constructed"
    /\ sess_call' = SessCall("interpolate_surface", <<>>, order, projection_type, standard_space)
    /\ \E r \in {interpolate_surface(session, surface, projection_type, standard_space, order)} :
          /\ session' = r.session
          /\ sess_raised' = r.raised
          /\ sess_ret' = r.ret
          /\ surface' = r.space
    /\ spline_runs' = [spline_runs EXCEPT ![order] = @ + get_filtered_data(session, order).runs]
    /\ UNCHANGED <<wf_dir, sess_pc>>
    /\ OnlySess

\* One call interpolate_volume(order).
InterpolateVolume(order) ==
    /\ sess_pc = "constructed"
    /\ sess_call' = SessCall("interpolate_volume", <<>>, order, "", FALSE)
    /\ \E r \in {interpolate_volume(session, order)} :
          /\ session' = r.session
          /\ sess_raised' = r.raised
          /\ sess_ret' = r.ret
    /\ spline_runs' = [spline_runs EXCEPT ![order] = @ + get_filtered_data(session, order).runs]
    /\ UNCHANGED <<wf_dir, sess_pc, surface>>
    /\ OnlySess

SessNext ==
    \/ \E orders \in PrepareOrders : Prepare(orders)
    \/ \E pt \in ProjectionTypes, std \in BOOLEAN, order \in Orders : InterpolateSurface(pt, std, order)
    \/ \E order \in Orders : InterpolateVolume(order)

SessInit == SessNew /\ MeshIdle /\ GridIdle /\ HemiIdle /\ WorkIdle

SpecSess == SessInit /\ [][SessNext]_vars

\* prepare has completed on the session, and it loaded at least one source volume.
Prepared == "warp_data" \in DOMAIN session /\ Len(session["nii_data"]) >= 1

\* C1: after prepare has completed, interpolate_volume(order) returns to its
\* caller the stacked per-volume result over the volume grid, one entry per
\* source volume, with no mesh transport; it never returns None.
C1_InterpolateVolumeReturnsStack ==
    (sess_call.op = "interpolate_volume" /\ Prepared) =>
        /\ sess_raised = "none"
        /\ ~sess_ret.none
        /\ Len(sess_ret.value) = Len(session["nii_data"])
        /\ sess_ret.value
             = Interpolated(session, session["vol_coords"], session["vol_shape"],
                            sess_call.order).value

\* The depth samples of vertex v in source volume i for the surface request
\* last made: row v of the flat sample vector reshaped to surface["shape"].
DepthSamples(i, v) ==
    LET flat == Samples(get_filtered_data(session, sess_call.order).data[i],
                        session["nii_affines"][i],
                        ApplyAll(MatMul(session["ref_to_t1"], session["lta"]),
                                 surface[CoordsKey(sess_call.projection_type)]),
                        session["hmc"][i], session["warp_data"][i], session["warp_affines"][i],
                        [session["interp_kwargs"] EXCEPT !.order = sess_call.order])
    IN [j \in 1..surface["shape"][2] |-> flat[(v - 1) * surface["shape"][2] + j]]

\* The last call was a surface request the space has the entries for.
SurfaceRequest ==
    /\ sess_call.op = "interpolate_surface"
    /\ Prepared
    /\ {CoordsKey(sess_call.projection_type), "shape"} \subseteq DOMAIN surface
    /\ sess_call.standard_space => "to_fsavg" \in DOMAIN surface

\* C7: for every surface-shaped request and every source volume, the value at
\* a vertex is the mean of that vertex's depth samples that are not NaN, and
\* is NaN if and only if all of them are; out-of-bounds samples are NaN and
\* the request does not raise.
C7_NanMeanOverDepth ==
    SurfaceRequest =>
        /\ sess_raised = "none"
        /\ ~sess_ret.none
        /\ ~sess_call.standard_space =>
             \A i \in DOMAIN session["nii_data"], v \in 1..surface["shape"][1] :
                 LET row == DepthSamples(i, v)
                     present == {j \in DOMAIN row : ~IsNaN(row[j])}
                     r == sess_ret.value[i][v]
                 IN /\ IsNaN(r) <=> present = {}
                    /\ present # {} =>
                         r[1] * Cardinality(present)
                           = r[2] * SumSet([j \in present |-> row[j][1]], present)

\* A surface request has returned, over two source volumes, with a vertex some
\* of whose depth samples are out of bounds and a vertex all of whose are.
C7_Witness ==
    /\ SurfaceRequest
    /\ ~sess_call.standard_space
    /\ sess_raised = "none"
    /\ Len(sess_ret.value) >= 2
    /\ \E i \in DOMAIN session["nii_data"], v \in 1..surface["shape"][1] :
          /\ \E j \in 1..NFracs : IsNaN(DepthSamples(i, v)[j])
          /\ \E j \in 1..NFracs : ~IsNaN(DepthSamples(i, v)[j])
          /\ ~IsNaN(sess_ret.value[i][v])
    /\ \E i \in DOMAIN session["nii_data"], v \in 1..surface["shape"][1] :
          /\ \A j \in 1..NFracs : IsNaN(DepthSamples(i, v)[j])
          /\ IsNaN(sess_ret.value[i][v])

\* C10: displacement fields are optional.  On a working directory with source
\* volumes and no displacement-field file, prepare completes without error and
\* every later interpolation call returns a result.
C10_WarpsOptional ==
    (wf_dir.nii_fns >= 1 /\ wf_dir.warp_fns = 0) =>
        /\ sess_call.op = "prepare" => sess_raised = "none"
        /\ (/\ sess_call.op = "interpolate_surface"
            /\ "hmc" \in DOMAIN session
            /\ {CoordsKey(sess_call.projection_type), "shape"} \subseteq DOMAIN surface
            /\ sess_call.standard_space => "to_fsavg" \in DOMAIN surface)
             => (sess_raised = "none" /\ ~sess_ret.none)

\* The operations that interpolate.
InterpolateOps == {"interpolate_surface", "interpolate_volume"}

HighOrders(orders) == {orders[k] : k \in {j \in DOMAIN orders : orders[j] > 1}}

\* C12: on a fresh session, after prepare(orders) returns, the prefilter cache
\* holds an entry for exactly the requested orders above 1, each with one
\* prefiltered array per loaded source volume, and no entry for an order <= 1.
C12_PrepareFillsCacheExactly ==
    [][(session = NewSession /\ sess_call'.op = "prepare" /\ sess_raised' = "none")
         => (/\ DOMAIN session'["filtered"] = HighOrders(sess_call'.orders)
             /\ \A o \in DOMAIN session'["filtered"] :
                   /\ o > 1
                   /\ Len(session'["filtered"][o]) = wf_dir.nii_fns
                   /\ \A k \in 1..wf_dir.nii_fns :
                         session'["filtered"][o][k] = spline_filter(NiiFile(k).data, o))]_vars

\* prepare has returned with an order above 1 among its orders, on two source
\* volumes, and the cache holds that order's two arrays.
C12_Witness ==
    /\ sess_call.op = "prepare"
    /\ sess_raised = "none"
    /\ HighOrders(sess_call.orders) # {}
    /\ DOMAIN session["filtered"] = HighOrders(sess_call.orders)
    /\ Len(session["nii_data"]) = 2
    /\ \A o \in DOMAIN session["filtered"] : Len(session["filtered"][o]) = 2

\* A grid lies within the volume of the canonical image: its bounds are within
\* [0, axis size] on every axis, its shape multiplies to its number of rows,
\* and every row is the world position of a voxel of the volume.
GridWithinVolume(canonical, grid) ==
    /\ \A d \in Axes :
          /\ grid.boundaries[d][1] \in 0..canonical.shape[d]
          /\ grid.boundaries[d][2] \in 0..canonical.shape[d]
    /\ grid.shape[1] * grid.shape[2] * grid.shape[3] = Len(grid.coords)
    /\ \A r \in DOMAIN grid.coords :
          InBounds(canonical.shape, Apply(InvAffine(canonical.affine), grid.coords[r]))

\* C13: on an all-zero brain mask of any size, with any margin m >= 0, the
\* bounding-box computation returns bounds within [0, axis size] on every
\* axis, the grid is empty or a clamped sub-box of the volume, and the product
\* of the returned shape is the number of coordinate rows.  This holds of the
\* grid canonical_volume_coords returned and of the box of margin m itself.
C13_AllZeroMaskIsSafe ==
    (grid_pc = "return" /\ brainmask.nonzero = {}) =>
        /\ GridWithinVolume(as_closest_canonical(brainmask),
                            [boundaries |-> boundaries, coords |-> coords, shape |-> shape])
        /\ GridWithinVolume(as_closest_canonical(brainmask),
                            TruncatedGrid(as_closest_canonical(brainmask), margin))

\* The grid of an all-zero mask with an axis of full length has been returned,
\* it is not empty, and the box of the margin passed is empty.
C13_Witness ==
    /\ grid_pc = "return"
    /\ brainmask.nonzero = {}
    /\ \E d \in Axes : brainmask.shape[d] = MaxDim
    /\ Len(coords) > 0
    /\ Len(TruncatedGrid(as_closest_canonical(brainmask), margin).coords) = 0

\* C14: within one session, over any sequence of prepare, interpolate_surface
\* and interpolate_volume calls, the prefilter pass for an order above 1 runs at
\* most once: the first request for the order runs it and populates the cache,
\* every later request reuses the entry, and no entry is removed or replaced.
C14_PrefilterOncePerOrder ==
    [][/\ \A o \in Orders : spline_runs'[o] <= 1
       /\ \A o \in DOMAIN session["filtered"] :
             /\ o \in DOMAIN session'["filtered"]
             /\ session'["filtered"][o] = session["filtered"][o]
             /\ spline_runs'[o] = spline_runs[o]
       /\ \A o \in (DOMAIN session'["filtered"]) \ (DOMAIN session["filtered"]) :
             spline_runs'[o] = spline_runs[o] + 1
       /\ (sess_call'.op \in InterpolateOps /\ sess_call'.order > 1 /\ "nii_data" \in DOMAIN session)
            => sess_call'.order \in DOMAIN session'["filtered"]
      ]_vars

\* An interpolation of an order above 1 has returned and the order's prefilter
\* pass has run once.
C14_Witness ==
    /\ sess_call.op \in InterpolateOps
    /\ sess_call.order > 1
    /\ sess_raised = "none"
    /\ spline_runs[sess_call.order] = 1
    /\ sess_call.order \in DOMAIN session["filtered"]

\* C15: after prepare, an interpolate_surface or interpolate_volume call
\* changes no loaded chain element or input: the head-motion transforms, the
\* registration and anatomical affines, the displacement fields, the source
\* volumes, their affines and the caller's coordinate batch stay as they were;
\* the only change to the session is a new prefilter cache entry.
C15_InterpolationReadsOnly ==
    [][(sess_call'.op \in InterpolateOps /\ "warp_data" \in DOMAIN session)
         => (/\ DOMAIN session' = DOMAIN session
             /\ \A a \in (DOMAIN session) \ {"filtered"} : session'[a] = session[a]
             /\ surface' = surface
             /\ \A o \in DOMAIN session["filtered"] :
                   /\ o \in DOMAIN session'["filtered"]
                   /\ session'["filtered"][o] = session["filtered"][o]
             /\ (DOMAIN session'["filtered"]) \ (DOMAIN session["filtered"])
                   \subseteq {sess_call'.order})]_vars

\* A surface request through the whole chain has returned on a prepared
\* session, and an order's coefficients are in the cache.
C15_Witness ==
    /\ SurfaceRequest
    /\ sess_raised = "none"
    /\ sess_call.order > 1
    /\ sess_call.order \in DOMAIN session["filtered"]
    /\ session["hmc"] = HmcFile(wf_dir.nii_fns)

\* The keys load_data gives the native space.
LoadedKeys == {"white", "faces", "pial", "thickness", "sphere.reg", "name"}

\* The three sampling-coordinate sets of a space.
CoordsKeys == {"coords_normals_sine", "coords_normals_equal", "coords_pial"}

\* C16: constructing a Hemisphere runs three steps, each once, in the order
\* loaded -> coordinates computed -> correspondence computed, with no step
\* repeated or revisited; when the constructor has returned, the native space
\* holds all three sampling-coordinate sets with one agreed output shape and
\* the native-to-standard transport operator.
C16_ConstructionRunsThreeStepsOnce ==
    [][/\ hemi_pc' # hemi_pc =>
             <<hemi_pc, hemi_pc'>> \in {<<"new", "loaded">>, <<"loaded", "coordinates">>,
                                        <<"coordinates", "constructed">>}
       /\ hemi_pc' = "loaded" => DOMAIN hemi'["native"] = LoadedKeys
       /\ hemi_pc' = "coordinates" =>
             /\ CoordsKeys \subseteq DOMAIN hemi'["native"]
             /\ "to_fsavg" \notin DOMAIN hemi'["native"]
       /\ hemi_pc' = "constructed" =>
             /\ CoordsKeys \cup {"shape", "to_fsavg"} \subseteq DOMAIN hemi'["native"]
             /\ hemi'["native"]["shape"] = <<Len(NativeWhite), NFracs>>
             /\ \A k \in CoordsKeys :
                   Len(hemi'["native"][k])
                     = hemi'["native"]["shape"][1] * hemi'["native"]["shape"][2]
             /\ Len(hemi'["native"]["to_fsavg"]) = Len(NativeWhite)
             /\ \A s \in DOMAIN hemi'["native"]["to_fsavg"] :
                   Len(hemi'["native"]["to_fsavg"][s]) = Len(FsavgSphereReg)
      ]_vars

\* The constructor has just returned: no method has been called on the object.
C16_Witness ==
    /\ hemi_pc = "constructed"
    /\ hemi_call = NoCall
    /\ spaces = <<"native">>
    /\ "to_fsavg" \in DOMAIN hemi["native"]

-----------------------------------------------------------------------------
(* PreprocessWorkflow._run_method: the step markers (src/src/process/main.py) *)

MaxProcs == 2
MaxCalls == 2

\* The processes that share the subject's log directory.
Procs == 1..MaxProcs

\* The names the five public methods pass to _run_method.
StepNames == {"fmriprep", "resample", "compress", "cleanup", "confound"}

\* finish_fn, running_fn and error_fn of a step: the file <<name, kind>>.
MarkerKinds == {"finish", "running", "error"}
Marker(name, kind) == <<name, kind>>

\* The four archives, in the order _run_compress writes them, and the two
\* roots _run_cleanup removes.
ArchiveOrder == <<"fmriprep_fn", "freesurfer_fn", "summary_fn", "confounds_fn">>
Archives == {ArchiveOrder[k] : k \in DOMAIN ArchiveOrder}
Roots == {"fmriprep_out", "fmriprep_work"}

\* os.path.exists(fn) and os.remove(fn) on the log directory.
Exists(dir, fn) == fn \in DOMAIN dir
Removed(dir, fn) == [x \in (DOMAIN dir) \ {fn} |-> dir[x]]

\* One way a step body ends: what it returned or that it raised, the message,
\* and the archives and roots it leaves on disk.
Ending(success, raised, message, arch, rts) ==
    [success |-> success, raised |-> raised, message |-> message, archives |-> arch, roots |-> rts]

\* An exception out of the step body: success = False, message = str(e).
Raises(arch, rts) == Ending(FALSE, TRUE, "exception", arch, rts)

\* _run_fmriprep: success is fmriprep_success(...), the message the run's report.
run_fmriprep(arch, rts) ==
    {Ending(TRUE, FALSE, "report", arch, rts), Ending(FALSE, FALSE, "report", arch, rts),
     Raises(arch, rts)}

\* _run_resample and _run_confound: True, '' unless the workflow raises.
run_resample(arch, rts) == {Ending(TRUE, FALSE, "", arch, rts), Raises(arch, rts)}
run_confound(arch, rts) == {Ending(TRUE, FALSE, "", arch, rts), Raises(arch, rts)}

\* _run_compress: the four archives are written in turn; a raise leaves the
\* ones written so far.
run_compress(arch, rts) ==
    {Ending(TRUE, FALSE, "", arch \cup Archives, rts)}
      \cup {Raises(arch \cup {ArchiveOrder[k] : k \in 1..n}, rts) : n \in 0..Len(ArchiveOrder)}

CleanupIgnoresArchivesMutant(arch, rts) == {Ending(TRUE, FALSE, "", arch, {})}

\* _run_cleanup: with all four archives present both roots are removed (a
\* raise of shutil.rmtree leaves the second root, or both); otherwise nothing
\* is removed and the step fails with its message.
run_cleanup(arch, rts) ==
    IF Archives \subseteq arch
    THEN {Ending(TRUE, FALSE, "", arch, {}),
          Raises(arch, rts), Raises(arch, rts \ {"fmriprep_out"})}
    ELSE {Ending(FALSE, FALSE, "Not all output files exist.", arch, rts)}

\* step(**kwargs) of line 73, for the step the name selects.
StepEndings(name, arch, rts) ==
    CASE name = "fmriprep" -> run_fmriprep(arch, rts)
      [] name = "resample" -> run_resample(arch, rts)
      [] name = "compress" -> run_compress(arch, rts)
      [] name = "cleanup" -> run_cleanup(arch, rts)
      [] name = "confound" -> run_confound(arch, rts)

\* The workflow object has been constructed in each process: the log directory
\* is empty, both roots exist, the archives of an earlier run exist or not.
WorkNew ==
    /\ log_dir = <<>>
    /\ archives \in {{}, Archives}
    /\ roots = Roots
    /\ body_runs = [n \in StepNames |-> 0]
    /\ run_pc = [p \in Procs |-> "idle"]
    /\ run_name = [p \in Procs |-> ""]
    /\ run_success = [p \in Procs |-> FALSE]
    /\ run_error = [p \in Procs |-> "None"]
    /\ run_message = [p \in Procs |-> ""]
    /\ run_wrote = [p \in Procs |-> <<>>]
    /\ run_result = [p \in Procs |-> "none"]
    /\ run_calls = [p \in Procs |-> 0]

\* Process p calls _run_method(name) through one of the public methods; the
\* processes make MaxCalls calls between them.
CallStep(p, name) ==
    /\ run_pc[p] = "idle"
    /\ SumSet(run_calls, Procs) < MaxCalls
    /\ run_calls' = [run_calls EXCEPT ![p] = @ + 1]
    /\ run_pc' = [run_pc EXCEPT ![p] = "check_finish"]
    /\ run_name' = [run_name EXCEPT ![p] = name]
    /\ run_success' = [run_success EXCEPT ![p] = FALSE]
    /\ run_error' = [run_error EXCEPT ![p] = "None"]
    /\ run_message' = [run_message EXCEPT ![p] = ""]
    /\ run_wrote' = [run_wrote EXCEPT ![p] = <<>>]
    /\ run_result' = [run_result EXCEPT ![p] = "none"]
    /\ UNCHANGED <<log_dir, archives, roots, body_runs>>
    /\ OnlyWork

\* Lines 51-56: one os.path.exists test by process p; the call returns
\* `returns` when the marker exists and goes on to `next` when it does not.
ExistsTest(p, kind, returns, next) ==
    /\ IF Exists(log_dir, Marker(run_name[p], kind))
       THEN /\ run_pc' = [run_pc EXCEPT ![p] = "idle"]
            /\ run_result' = [run_result EXCEPT ![p] = returns]
       ELSE /\ run_pc' = [run_pc EXCEPT ![p] = next]
            /\ UNCHANGED run_result
    /\ UNCHANGED <<log_dir, archives, roots, body_runs,
                   run_name, run_success, run_error, run_message, run_wrote, run_calls>>

\* Lines 51-52: if os.path.exists(finish_fn): return True
CheckFinish(p) ==
    /\ run_pc[p] = "check_finish"
    /\ ExistsTest(p, "finish", "True", "check_error")
    /\ OnlyWork

CheckErrorSkippedMutant(p) ==
    /\ run_pc[p] = "check_error"
    /\ run_pc' = [run_pc EXCEPT ![p] = "check_running"]
    /\ UNCHANGED <<log_dir, archives, roots, body_runs, run_name, run_success, run_error,
                   run_message, run_wrote, run_result, run_calls>>
    /\ OnlyWork

\* Lines 53-54: if os.path.exists(error_fn): return False
CheckError(p) ==
    /\ run_pc[p] = "check_error"
    /\ ExistsTest(p, "error", "False", "check_running")
    /\ OnlyWork

\* Lines 55-56: if os.path.exists(running_fn): return False
CheckRunning(p) ==
    /\ run_pc[p] = "check_running"
    /\ ExistsTest(p, "running", "False", "write_running")
    /\ OnlyWork

\* Lines 57-58: the running marker is created, or truncated if it exists.
WriteRunning(p) ==
    /\ run_pc[p] = "write_running"
    /\ run_pc' = [run_pc EXCEPT ![p] = "step"]
    /\ log_dir' = DictSet(log_dir, Marker(run_name[p], "running"), "")
    /\ run_wrote' = [run_wrote EXCEPT ![p] = Append(@, <<"write", "running">>)]
    /\ UNCHANGED <<archives, roots, body_runs,
                   run_name, run_success, run_error, run_message, run_result, run_calls>>
    /\ OnlyWork

\* Lines 60-78: the step body runs and ends in one of its ways.
RunStep(p) ==
    /\ run_pc[p] = "step"
    /\ run_pc' = [run_pc EXCEPT ![p] = "write_outcome"]
    /\ body_runs' = [body_runs EXCEPT ![run_name[p]] = @ + 1]
    /\ \E e \in StepEndings(run_name[p], archives, roots) :
          /\ run_success' = [run_success EXCEPT ![p] = e.success]
          /\ run_error' = [run_error EXCEPT ![p] = IF e.raised THEN "Exception" ELSE "None"]
          /\ run_message' = [run_message EXCEPT ![p] = e.message]
          /\ archives' = e.archives
          /\ roots' = e.roots
    /\ UNCHANGED <<log_dir, run_name, run_wrote, run_result, run_calls>>
    /\ OnlyWork

OutcomeKindFinishMutant(success) == "finish"

\* Line 80: fn = finish_fn if success else error_fn
OutcomeKind(success) == IF success THEN "finish" ELSE "error"

\* Lines 80-82: the message is written to the finish or the error marker.
WriteOutcome(p) ==
    /\ run_pc[p] = "write_outcome"
    /\ run_pc' = [run_pc EXCEPT ![p] = "remove_running"]
    /\ \E kind \in {OutcomeKind(run_success[p])} :
          /\ log_dir' = DictSet(log_dir, Marker(run_name[p], kind), run_message[p])
          /\ run_wrote' = [run_wrote EXCEPT ![p] = Append(@, <<"write", kind>>)]
    /\ UNCHANGED <<archives, roots, body_runs,
                   run_name, run_success, run_error, run_message, run_result, run_calls>>
    /\ OnlyWork

\* Lines 83-84: the running marker is removed if it is still there.
RemoveRunning(p) ==
    /\ run_pc[p] = "remove_running"
    /\ run_pc' = [run_pc EXCEPT ![p] = "end"]
    /\ IF Exists(log_dir, Marker(run_name[p], "running"))
       THEN /\ log_dir' = Removed(log_dir, Marker(run_name[p], "running"))
            /\ run_wrote' = [run_wrote EXCEPT ![p] = Append(@, <<"remove", "running">>)]
       ELSE UNCHANGED <<log_dir, run_wrote>>
    /\ UNCHANGED <<archives, roots, body_runs,
                   run_name, run_success, run_error, run_message, run_result, run_calls>>
    /\ OnlyWork

\* Lines 86-92: the exception is raised again, or the process exits with
\* status 1, or the call returns True.
EndCall(p) ==
    /\ run_pc[p] = "end"
    /\ IF run_error[p] # "None"
       THEN /\ run_pc' = [run_pc EXCEPT ![p] = "exited"]
            /\ run_result' = [run_result EXCEPT ![p] = "raised"]
       ELSE IF ~run_success[p]
       THEN /\ run_pc' = [run_pc EXCEPT ![p] = "exited"]
            /\ run_result' = [run_result EXCEPT ![p] = "exit(1)"]
       ELSE /\ run_pc' = [run_pc EXCEPT ![p] = "idle"]
            /\ run_result' = [run_result EXCEPT ![p] = "True"]
    /\ UNCHANGED <<log_dir, archives, roots, body_runs,
                   run_name, run_success, run_error, run_message, run_wrote, run_calls>>
    /\ OnlyWork

WorkNext ==
    \/ \E p \in Procs, name \in StepNames : CallStep(p, name)
    \/ \E p \in Procs : CheckFinish(p)
    \/ \E p \in Procs : CheckError(p)
    \/ \E p \in Procs : CheckRunning(p)
    \/ \E p \in Procs : WriteRunning(p)
    \/ \E p \in Procs : RunStep(p)
    \/ \E p \in Procs : WriteOutcome(p)
    \/ \E p \in Procs : RemoveRunning(p)
    \/ \E p \in Procs : EndCall(p)

WorkInit == WorkNew /\ MeshIdle /\ GridIdle /\ HemiIdle /\ SessIdle

SpecWork == WorkInit /\ [][WorkNext]_vars

\* The positions of _run_method past the three marker guards.
PastGuards == {"write_running", "step", "write_outcome", "remove_running", "end"}

\* C17: when several processes call the same step for the same subject and
\* log directory, under any interleaving, at most one of them gets past the
\* marker guards and executes the step body; the others return at a marker.
C17_StepMutualExclusion ==
    \A name \in StepNames :
        /\ body_runs[name] <= 1
        /\ Cardinality({p \in Procs : run_name[p] = name /\ run_pc[p] \in PastGuards}) <= 1

\* Process p runs the body of the cleanup step in this step.
CleanupBodyRuns(p) ==
    run_name[p] = "cleanup" /\ run_pc[p] = "step" /\ run_pc'[p] = "write_outcome"

\* C18: the cleanup step removes the fmriprep output root and working root
\* only when all four archives exist at the moment it runs; when an archive is
\* missing it removes nothing, its failure 'Not all output files exist.' goes
\* into the error marker, and the call does not write the finish marker.
C18_CleanupOnlyWithAllArchives ==
    [][/\ roots' # roots => \E p \in Procs : CleanupBodyRuns(p) /\ Archives \subseteq archives
       /\ \A p \in Procs :
             (CleanupBodyRuns(p) /\ ~(Archives \subseteq archives)) =>
                 /\ roots' = roots
                 /\ archives' = archives
                 /\ ~run_success'[p]
                 /\ run_error'[p] = "None"
                 /\ run_message'[p] = "Not all output files exist."
       /\ \A p \in Procs :
             (/\ run_name[p] = "cleanup"
              /\ run_message[p] = "Not all output files exist."
              /\ run_pc[p] = "write_outcome"
              /\ run_pc'[p] = "remove_running") =>
                 /\ log_dir' = DictSet(log_dir, Marker("cleanup", "error"), "Not all output files exist.")
                 /\ \A k \in DOMAIN run_wrote'[p] : run_wrote'[p][k] # <<"write", "finish">>
      ]_vars

\* A cleanup call without all archives has ended the process with exit status
\* 1: both roots are in place, the error marker holds the message and there is
\* no finish marker.
C18_Witness ==
    \E p \in Procs :
        /\ run_name[p] = "cleanup"
        /\ run_result[p] = "exit(1)"
        /\ roots = Roots
        /\ ~(Archives \subseteq archives)
        /\ Exists(log_dir, Marker("cleanup", "error"))
        /\ log_dir[Marker("cleanup", "error")] = "Not all output files exist."
        /\ ~Exists(log_dir, Marker("cleanup", "finish"))

\* Process p is the only one that has called a step.
Alone(p) == \A q \in Procs \ {p} : run_calls[q] = 0

\* The marker operations of a call that got past the guards and ended.
FullProtocol(success) ==
    <<<<"write", "running">>, <<"write", OutcomeKind(success)>>, <<"remove", "running">>>>

ReturnsUntouched(p, returns) ==
    /\ run_pc'[p] = "idle"
    /\ run_result'[p] = returns
    /\ run_wrote'[p] = <<>>
    /\ log_dir' = log_dir
    /\ body_runs' = body_runs
    /\ archives' = archives
    /\ roots' = roots

\* C20: outcome markers are terminal.  A finish or error marker is never
\* removed; a call that tests the finish marker once it exists returns True,
\* and a call that has found no finish marker and tests the error marker once
\* it exists returns False, in both cases without running the step body or
\* touching a marker, so a failed step is not retried.
C20_OutcomeMarkersTerminal ==
    [][/\ \A name \in StepNames, kind \in {"finish", "error"} :
             Exists(log_dir, Marker(name, kind)) =>
                 /\ Exists(log_dir', Marker(name, kind))
                 /\ \A p \in Procs :
                       (run_name[p] = name /\ run_pc[p] = "idle" /\ run_pc'[p] # "idle")
                           => run_pc'[p] = "check_finish" /\ log_dir' = log_dir
       /\ \A p \in Procs :
             (/\ run_pc[p] = "check_finish"
              /\ run_pc'[p] # run_pc[p]
              /\ Exists(log_dir, Marker(run_name[p], "finish")))
                 => ReturnsUntouched(p, "True")
       /\ \A p \in Procs :
             (/\ run_pc[p] = "check_error"
              /\ run_pc'[p] # run_pc[p]
              /\ Exists(log_dir, Marker(run_name[p], "error")))
                 => ReturnsUntouched(p, "False")
      ]_vars

\* A call of a step that failed before has returned False: the error marker is
\* there, no finish marker is, and the body has run once.
C20_Witness ==
    \E p \in Procs :
        /\ run_result[p] = "False"
        /\ run_pc[p] = "idle"
        /\ run_wrote[p] = <<>>
        /\ Exists(log_dir, Marker(run_name[p], "error"))
        /\ ~Exists(log_dir, Marker(run_name[p], "finish"))
        /\ ~Exists(log_dir, Marker(run_name[p], "running"))
        /\ body_runs[run_name[p]] = 1

====
